---- MODULE Spec2Model ----
(***************************************************************************)
(* TechDocAgent: the incremental indexing core.                            *)
(*                                                                         *)
(*   - techdocagent_advanced/ast_analyzer.py : chunk extraction            *)
(*   - techdocagent_advanced/memory.py       : the File Record table       *)
(*   - techdocagent_advanced/change_detector.py : change classification    *)
(*   - techdocagent_advanced/embeddings.py   : the index store             *)
(*   - techdocagent_advanced/agent.py        : analyze_codebase            *)
(*                                                                         *)
(* A text is represented by the sequence of its lines, i.e. by the value   *)
(* of text.split('\n'): a non-empty sequence (the empty text is the single *)
(* empty line).  A line is a record: its leading whitespace width, what    *)
(* the regular expressions of the analyzer see in it, and a name.          *)
(***************************************************************************)
EXTENDS Integers, Sequences, FiniteSets, TLC

\* ------------------------------------------------------------------ bounds
\* number of analyze_codebase runs explored
MaxRuns == 2

\* number of lines of git output given to the change detector on its own
MaxGitLines == 2

\* number of entries put into the store on its own
MaxEntries == 3

\* number of times the store is constructed again from its directory
MaxLoads == 1

\* largest top_k given to search
MaxK == 2

\* the pieces between newlines of a content handed to the chunkers: at most
MaxPieces == 3

\* ------------------------------------------------------------------ helpers
Min(S) == CHOOSE x \in S : \A y \in S : x <= y

Range(s) == {s[i] : i \in DOMAIN s}

RECURSIVE SumSeq(_)
SumSeq(s) == IF s = <<>> THEN 0 ELSE Head(s) + SumSeq(Tail(s))

\* ------------------------------------------------------------------ lines
\* kind "def"   :  <ind spaces>def <name>():
\* kind "class" :  <ind spaces>class <name>:
\* kind "code"  :  <ind spaces><name>            (any other statement)
\* kind "blank" :  <ind spaces>                  (whitespace only)
\* and, for the languages that delimit blocks with braces,
\* kind "function"        :  function <name>()
\* kind "function_open"   :  function <name>() {
\* kind "function_closed" :  function <name>() {}
\* kind "open"            :  {
\* kind "close"           :  }
\* kind "close_open"      :  } {
Ln(i, k, n) == [ind |-> i, kind |-> k, name |-> n]

EmptyLine == Ln(0, "blank", "")

\* str.split('\n') of a text is the text itself in this representation;
\* '\n'.join(ls) is ls, except that joining no lines gives the empty text.
Join(ls) == IF ls = <<>> THEN <<EmptyLine>> ELSE ls

\* lines[start:end] with 0-based start and exclusive end, as Python slices
Slice(ls, start, end) ==
    LET e == IF end > Len(ls) THEN Len(ls) ELSE end
    IN  IF e <= start THEN <<>> ELSE SubSeq(ls, start + 1, e)

IsBlank(l) == l.kind = "blank"

\* the braces of a line, in the order they stand in it
Braces(l) ==
    CASE l.kind \in {"function_open", "open"} -> << "{" >>
      [] l.kind = "function_closed"           -> << "{", "}" >>
      [] l.kind = "close"                     -> << "}" >>
      [] l.kind = "close_open"                -> << "}", "{" >>
      [] OTHER                                -> << >>

\* line.count(c)
CountOf(l, c) == Len(SelectSeq(Braces(l), LAMBDA b : b = c))

\* ------------------------------------------------------------------ paths
Path(stem, suffix) == [stem |-> stem, suffix |-> suffix]

PathSeq == << Path("a", ".py"), Path("b", ".py") >>

Paths == Range(PathSeq)

\* techdocagent/analysis.py: EXTENSION_LANGUAGE_MAP.get(ext, 'Unknown')
detect_language(p) ==
    CASE p.suffix = ".py"   -> "Python"
      [] p.suffix = ".js"   -> "JavaScript"
      [] p.suffix = ".json" -> "JSON"
      [] OTHER              -> "Unknown"

\* ------------------------------------------------------------------ the texts a file of the tree may hold
FileTexts == <<
    \* def a():
    \*     x = 1
    << Ln(0, "def", "a"), Ln(4, "code", "x = 1") >>,
    \* def a():
    \*     x = 2
    \* def b():
    \*     y = 2
    << Ln(0, "def", "a"), Ln(4, "code", "x = 2"),
       Ln(0, "def", "b"), Ln(4, "code", "y = 2") >>
  >>

Contents == 1 .. Len(FileTexts)

\* the trees explored: a.py holds either text and stays readable; b.py holds
\* the first text and may lose its read permission
TextsOf(p) == IF p.stem = "a" THEN Contents ELSE {1}

MayBeUnreadable(p) == p.stem = "b"

\* ------------------------------------------------------------------ ast_analyzer.py
\* Both declaration patterns start with ^(\s*) under re.MULTILINE: \s also
\* matches '\n', so a match for the declaration on line j starts at the
\* first line of the run of whitespace-only lines that precedes line j.
MatchStart(ls, j) ==
    Min({i \in 1 .. j : \A k \in i .. (j - 1) : IsBlank(ls[k])})

\* len(indent): the length of what group 1 matched, newlines included
GroupIndent(ls, j) ==
    LET ms == MatchStart(ls, j)
    IN  SumSeq([k \in 1 .. (j - ms) |-> ls[ms + k - 1].ind + 1]) + ls[j].ind

\* the declarations of one kind, in source order, as finditer yields them;
\* line is content[:match.start()].count('\n') + 1
RECURSIVE Decls(_, _, _)
Decls(ls, kind, j) ==
    IF j > Len(ls) THEN <<>>
    ELSE IF ls[j].kind = kind
         THEN << [name   |-> ls[j].name,
                  type   |-> IF kind = "def" THEN "function" ELSE "class",
                  line   |-> MatchStart(ls, j),
                  indent |-> GroupIndent(ls, j)] >> \o Decls(ls, kind, j + 1)
         ELSE Decls(ls, kind, j + 1)

\* the first class, in the order of result['classes'], that starts before
\* the def and whose group 1 is shorter than that of the def; 0 if none
ParentClass(classes, f) ==
    LET above == {i \in DOMAIN classes :
                     classes[i].line < f.line /\ f.indent > classes[i].indent}
    IN  IF above = {} THEN 0 ELSE Min(above)

\* cls['methods']: the defs with a non-empty group 1 appended to class i
MethodsOf(ls, classes, i) ==
    SelectSeq(Decls(ls, "def", 1),
              LAMBDA f : f.indent > 0 /\ ParentClass(classes, f) = i)

PyClasses(ls) ==
    LET classes == Decls(ls, "class", 1)
    IN  [i \in DOMAIN classes |->
            [name    |-> classes[i].name,
             type    |-> classes[i].type,
             line    |-> classes[i].line,
             indent  |-> classes[i].indent,
             methods |-> MethodsOf(ls, classes, i)]]

\* a def whose group 1 is not empty is taken for a method and is not
\* appended to result['functions']
PyFunctions(ls) ==
    SelectSeq(Decls(ls, "def", 1), LAMBDA f : ~(f.indent > 0))

\* _analyze_javascript: ^\s*class\s+(\w+) and ^\s*(?:function\s+(\w+)|...),
\* both under re.MULTILINE; every match is appended, whatever its indentation
JsFunctionKinds == {"function", "function_open", "function_closed"}

RECURSIVE JsFunctionsFrom(_, _)
JsFunctionsFrom(ls, j) ==
    IF j > Len(ls) THEN <<>>
    ELSE IF ls[j].kind \in JsFunctionKinds
         THEN << [name   |-> ls[j].name,
                  type   |-> "function",
                  line   |-> MatchStart(ls, j),
                  indent |-> GroupIndent(ls, j)] >> \o JsFunctionsFrom(ls, j + 1)
         ELSE JsFunctionsFrom(ls, j + 1)

JsClasses(ls) ==
    LET classes == Decls(ls, "class", 1)
    IN  [i \in DOMAIN classes |->
            [name    |-> classes[i].name,
             type    |-> classes[i].type,
             line    |-> classes[i].line,
             indent  |-> classes[i].indent,
             methods |-> <<>>]]

JsFunctions(ls) == JsFunctionsFrom(ls, 1)

analyze_file(content, language) ==
    IF language = "Python"
    THEN [classes |-> PyClasses(content), functions |-> PyFunctions(content)]
    ELSE IF language \in {"JavaScript", "TypeScript"}
    THEN [classes |-> JsClasses(content), functions |-> JsFunctions(content)]
    ELSE [classes |-> <<>>, functions |-> <<>>]

\* start is a 0-based line index, as is the result
find_python_block_end(ls, start) ==
    IF start >= Len(ls) THEN Len(ls)
    ELSE LET base_indent == ls[start + 1].ind
             stops == {i \in (start + 1) .. (Len(ls) - 1) :
                          /\ ~IsBlank(ls[i + 1])
                          /\ ls[i + 1].ind <= base_indent}
         IN  IF stops = {} THEN Len(ls) ELSE Min(stops)

\* the default branch: the next blank line, or the end of the file
find_default_block_end(ls, start) ==
    LET stops == {i \in (start + 1) .. (Len(ls) - 1) : IsBlank(ls[i + 1])}
    IN  IF stops = {} THEN Len(ls) ELSE Min(stops)

\* the loop of _find_brace_block_end from the 0-based line i on
RECURSIVE BraceLoop(_, _, _, _)
BraceLoop(ls, i, brace_count, found_start) ==
    IF i >= Len(ls) THEN Len(ls)
    ELSE LET line == ls[i + 1]
             count == brace_count + CountOf(line, "{") - CountOf(line, "}")
             found == found_start \/ CountOf(line, "{") > 0
         IN  IF found /\ count = 0 THEN i + 1
             ELSE BraceLoop(ls, i + 1, count, found)

find_brace_block_end(ls, start) == BraceLoop(ls, start, 0, FALSE)

BraceLanguages == {"JavaScript", "TypeScript", "Java", "C++", "C", "C#", "Go", "Rust"}

find_block_end(ls, start, language) ==
    IF language = "Python" THEN find_python_block_end(ls, start)
    ELSE IF language \in BraceLanguages THEN find_brace_block_end(ls, start)
    ELSE find_default_block_end(ls, start)

extract_chunk_lines(ls, start, end) ==
    [start_line |-> start + 1, end_line |-> end, code |-> Join(Slice(ls, start, end))]

DeclChunk(ls, d, language) ==
    LET chunk == extract_chunk_lines(ls, d.line - 1,
                                     find_block_end(ls, d.line - 1, language))
    IN  [type       |-> d.type,
         name       |-> d.name,
         start_line |-> d.line,
         end_line   |-> chunk.end_line,
         code       |-> chunk.code]

extract_chunks(file_path, content, language) ==
    LET analysis == analyze_file(content, language)
        cls == [i \in DOMAIN analysis.classes |->
                   DeclChunk(content, analysis.classes[i], language)]
        fns == [i \in DOMAIN analysis.functions |->
                   DeclChunk(content, analysis.functions[i], language)]
        chunks == cls \o fns
    IN  IF chunks = <<>>
        THEN << [type       |-> "file",
                 name       |-> file_path.stem,
                 start_line |-> 1,
                 end_line   |-> Len(content),
                 code       |-> content] >>
        ELSE chunks

\* ------------------------------------------------------------------ state
VARIABLES
    disk,              \* the tree: path -> 0 (no such file) or the index of its text
    unreadable,        \* path -> TRUE when open() of the file raises
    is_git_repo,       \* ChangeDetector.is_git_repo
    FAISS_AVAILABLE,   \* whether "import faiss" succeeded
    files,             \* MemoryManager: the files table, path -> row or NoRecord
    chunks,            \* EmbeddingManager.chunks
    chunk_embeddings,  \* EmbeddingManager.chunk_embeddings
    index,             \* EmbeddingManager.index: the vectors it holds
    index_file,        \* faiss.index on disk
    metadata_file,     \* metadata.pkl on disk
    runs,              \* completed analyze_codebase calls
    summary,           \* what the last analyze_codebase returned
    run,               \* a record of what the last analyze_codebase did
    det,               \* inputs and result of a change-detector call
    sr,                \* inputs and outcome of a search call
    alive,             \* whether a process holds the store in memory
    save_pc,           \* where save() stands: "idle", or "index_written"
    hist,              \* what was saved and loaded so far
    threads,           \* the threads that share one store, and where each stands
    chunked            \* input and result of a call of the chunkers on one content

vars == << disk, unreadable, is_git_repo, FAISS_AVAILABLE, files, chunks,
           chunk_embeddings, index, index_file, metadata_file, runs,
           summary, run, det, sr, alive, save_pc, hist, threads, chunked >>

\* what the store on its own adds to the state
aux == << sr, alive, save_pc, hist, threads, chunked >>

\* ------------------------------------------------------------------ memory.py
\* no row for the path; no text hashes to the digest of no lines
NoRecord == [content_hash |-> [sha256 |-> <<>>], language |-> "none", last_analyzed |-> 0]

\* hashlib.sha256 of the content: a digest that distinguishes different texts
compute_file_hash(content) == [sha256 |-> content]

\* INSERT ... ON CONFLICT(file_path) DO UPDATE; now is CURRENT_TIMESTAMP
store_file_metadata(tbl, file_path, content, language, now) ==
    [tbl EXCEPT ![file_path] = [content_hash  |-> compute_file_hash(content),
                                language      |-> language,
                                last_analyzed |-> now]]

has_file_changed(tbl, file_path, current_content) ==
    IF tbl[file_path] = NoRecord THEN TRUE
    ELSE compute_file_hash(current_content) # tbl[file_path].content_hash

get_all_file_paths(tbl) == {p \in DOMAIN tbl : tbl[p] # NoRecord}

\* ------------------------------------------------------------------ the tree
Exists(d, p) == d[p] # 0

\* f.read() of a readable file
Read(d, p) == FileTexts[d[p]]

\* techdocagent/ingestion.py: the code files found by os.walk
ingest_codebase(d) == SelectSeq(PathSeq, LAMBDA p : Exists(d, p))

\* ------------------------------------------------------------------ change_detector.py
Change(p, t) == [file_path |-> p, change_type |-> t]

parse_git_status(status) ==
    CASE status \in {"M", "MM", "AM"} -> "modified"
      [] status \in {"A", "AA", "??"} -> "added"
      [] status \in {"D", "DD"}       -> "deleted"
      [] status \in {"R", "RM"}       -> "renamed"
      [] OTHER                        -> "modified"

\* git_out: the lines "git status --porcelain" printed, as <<status, path>>
get_changed_files_git(isrepo, git_out) ==
    IF ~isrepo THEN <<>>
    ELSE [i \in DOMAIN git_out |->
             Change(git_out[i][2], parse_git_status(git_out[i][1]))]

\* HashChangeOf with the tracked test left out: every changed file is 'modified'
HashChangeOf_untracked(tbl, d, unr, file_path) ==
    LET tracked_files == get_all_file_paths(tbl)
    IN  IF ~Exists(d, file_path)
        THEN IF file_path \in tracked_files
             THEN << Change(file_path, "deleted") >> ELSE <<>>
        ELSE IF unr[file_path] THEN <<>>
        ELSE IF has_file_changed(tbl, file_path, Read(d, file_path))
             THEN << Change(file_path, "modified") >>
             ELSE <<>>

\* the record, if any, that the first loop appends for one path
HashChangeOf(tbl, d, unr, file_path) ==
    LET tracked_files == get_all_file_paths(tbl)
    IN  IF ~Exists(d, file_path)
        THEN IF file_path \in tracked_files
             THEN << Change(file_path, "deleted") >> ELSE <<>>
        ELSE IF unr[file_path] THEN <<>>
        ELSE IF has_file_changed(tbl, file_path, Read(d, file_path))
             THEN << Change(file_path,
                            IF file_path \in tracked_files
                            THEN "modified" ELSE "added") >>
             ELSE <<>>

RECURSIVE HashChangesFrom(_, _, _, _, _)
HashChangesFrom(tbl, d, unr, file_paths, i) ==
    IF i > Len(file_paths) THEN <<>>
    ELSE HashChangeOf(tbl, d, unr, file_paths[i])
           \o HashChangesFrom(tbl, d, unr, file_paths, i + 1)

get_changed_files_hash(tbl, d, unr, file_paths) ==
    LET tracked_files == get_all_file_paths(tbl)
        current_files == Range(file_paths)
        gone == SelectSeq(PathSeq, LAMBDA p :
                    p \in tracked_files /\ p \notin current_files)
    IN  HashChangesFrom(tbl, d, unr, file_paths, 1)
          \o [i \in DOMAIN gone |-> Change(gone[i], "deleted")]

\* changes_map[change['file_path']] = change on an insertion-ordered dict
MapPut(m, change) ==
    IF \E i \in DOMAIN m : m[i].file_path = change.file_path
    THEN [i \in DOMAIN m |->
            IF m[i].file_path = change.file_path THEN change ELSE m[i]]
    ELSE Append(m, change)

RECURSIVE PutAll(_, _, _)
PutAll(m, cs, i) ==
    IF i > Len(cs) THEN m ELSE PutAll(MapPut(m, cs[i]), cs, i + 1)

RECURSIVE PutMissing(_, _, _)
PutMissing(m, cs, i) ==
    IF i > Len(cs) THEN m
    ELSE IF \E k \in DOMAIN m : m[k].file_path = cs[i].file_path
         THEN PutMissing(m, cs, i + 1)
         ELSE PutMissing(Append(m, cs[i]), cs, i + 1)

\* get_all_changes with the two sources merged in the other order
get_all_changes_hashfirst(tbl, d, unr, isrepo, git_out, file_paths) ==
    LET git_changes  == get_changed_files_git(isrepo, git_out)
        hash_changes == get_changed_files_hash(tbl, d, unr, file_paths)
    IN  PutMissing(PutAll(<<>>, hash_changes, 1), git_changes, 1)

get_all_changes(tbl, d, unr, isrepo, git_out, file_paths) ==
    LET git_changes  == get_changed_files_git(isrepo, git_out)
        hash_changes == get_changed_files_hash(tbl, d, unr, file_paths)
    IN  PutMissing(PutAll(<<>>, git_changes, 1), hash_changes, 1)

\* ------------------------------------------------------------------ embeddings.py
\* self.dimension
dimension == 768

\* a vector: its length, and the two of its components that tell vectors
\* apart here (the others are zero)
Vec(d, x, y) == [dim |-> d, v |-> <<x, y>>]

\* generate_embedding returned None
None == Vec(0, 0, 0)

\* "\n".join(parts): the name is left out when empty, the code when empty
create_chunk_text(chunk, file_path, language) ==
    [language |-> language,
     name     |-> chunk.name,
     type     |-> chunk.type,
     file     |-> file_path,
     code     |-> IF chunk.code = <<EmptyLine>> THEN <<>> ELSE chunk.code]

\* the embed collaborator during an analysis: a vector of the store's
\* dimension, a function of the text
EmbedVec(text) ==
    Vec(dimension, Len(text.code),
        SumSeq([i \in DOMAIN text.code |-> text.code[i].ind]))

\* up: whether the collaborator answers this call
generate_embedding(text, up) == IF up THEN EmbedVec(text) ELSE None

Store(c, e, x) == [chunks |-> c, chunk_embeddings |-> e, index |-> x]

\* chunk_metadata of add_chunk; the texts here are shorter than the 500
\* characters kept in 'code'
ChunkMetadata(chunk, file_path, language) ==
    [file_path  |-> file_path,
     language   |-> language,
     chunk_type |-> chunk.type,
     name       |-> chunk.name,
     start_line |-> chunk.start_line,
     end_line   |-> chunk.end_line,
     code       |-> chunk.code,
     full_code  |-> chunk.code]

\* IndexFlatL2.add of one vector: the binding asserts that the vector has the
\* dimension of the index; with assertions stripped (python -O) the first
\* self.d components of the buffer are copied
IndexAdd(x, embedding, asserts) ==
    IF embedding.dim = dimension THEN [raised |-> FALSE, index |-> Append(x, embedding)]
    ELSE IF asserts THEN [raised |-> TRUE, index |-> x]
    ELSE [raised |-> FALSE, index |-> Append(x, [embedding EXCEPT !.dim = dimension])]

\* add_chunk from the point where generate_embedding has returned embedding;
\* index is None exactly when faiss is missing
AddEmbedded(s, faiss, chunk, file_path, language, embedding, asserts) ==
    LET chunk_metadata == ChunkMetadata(chunk, file_path, language)
    IN  IF embedding = None THEN s
        ELSE Store(Append(s.chunks, chunk_metadata),
                   Append(s.chunk_embeddings, embedding),
                   IF faiss THEN IndexAdd(s.index, embedding, asserts).index
                   ELSE s.index)

\* the store after add_chunk
add_chunk(s, faiss, chunk, file_path, language, up) ==
    LET chunk_text == create_chunk_text(chunk, file_path, language)
        embedding  == generate_embedding(chunk_text, up)
    IN  AddEmbedded(s, faiss, chunk, file_path, language, embedding, TRUE)

search_by_file(cs, file_path) ==
    SelectSeq(cs, LAMBDA chunk : chunk.file_path = file_path)

\* ------------------------------------------------------------------ embeddings.py: load
\* where reading the two artifacts may raise: in faiss.read_index, in open,
\* in pickle.load, at data['chunks'] or at data['embeddings']
LoadFailures == {"none", "read_index", "open", "pickle", "chunks", "embeddings"}

\* the attributes when the try block of _load_or_create_index is left, by
\* its end or by an exception at fail_at; __init__ set them to None, [], []
LoadSteps(idx, meta, fail_at) ==
    CASE fail_at = "read_index"               -> Store(<<>>, <<>>, <<>>)
      [] fail_at \in {"open", "pickle", "chunks"} -> Store(<<>>, <<>>, idx.vectors)
      [] fail_at = "embeddings"               -> Store(meta.chunks, <<>>, idx.vectors)
      [] OTHER -> Store(meta.chunks, meta.embeddings, idx.vectors)

\* create_new_index renewing the index only
create_new_index_keeplists(s) == Store(s.chunks, s.chunk_embeddings, <<>>)

\* _create_new_index: a new IndexFlatL2 (or none), and two empty lists
create_new_index(s) == Store(<<>>, <<>>, <<>>)

load_or_create_index(idx, meta, faiss, fail_at) ==
    IF idx.exists /\ meta.exists /\ faiss
    THEN IF fail_at = "none" THEN LoadSteps(idx, meta, fail_at)
         ELSE create_new_index(LoadSteps(idx, meta, fail_at))
    ELSE create_new_index(Store(<<>>, <<>>, <<>>))

\* ------------------------------------------------------------------ embeddings.py: search
\* In the store on its own a string (a query, a chunk's code, name and file
\* path) is the sequence of its characters.
LowerChar(c) == CASE c = "A" -> "a" [] c = "B" -> "b" [] OTHER -> c

\* str.lower()
lower(str) == [i \in DOMAIN str |-> LowerChar(str[i])]

\* needle in hay
IsSubstring(needle, hay) ==
    \E i \in 0 .. (Len(hay) - Len(needle)) :
        SubSeq(hay, i + 1, i + Len(needle)) = needle

\* seq[:k]: a negative k leaves out the last -k elements
Prefix(seq, k) ==
    LET n == IF k >= 0 THEN (IF k < Len(seq) THEN k ELSE Len(seq))
             ELSE (IF Len(seq) + k > 0 THEN Len(seq) + k ELSE 0)
    IN  SubSeq(seq, 1, n)

\* a score is the fraction p / q with q > 0
Score(p, q) == [p |-> p, q |-> q]

ScoreGt(a, b) == a.p * b.q > b.p * a.q

\* one element of a search result; idx tells which stored dictionary it is
Hit(cs, idx, score) == [chunk |-> cs[idx], idx |-> idx, score |-> score]

\* what search returns, or that it raised
Returned(results) == [raised |-> FALSE, results |-> results]

Raised == [raised |-> TRUE, results |-> <<>>]

\* InsertDesc putting an element before those of equal score
InsertDesc_unstable(sorted, x) ==
    LET lower_ones == {i \in DOMAIN sorted : ~ScoreGt(sorted[i].score, x.score)}
    IN  IF lower_ones = {} THEN Append(sorted, x)
        ELSE SubSeq(sorted, 1, Min(lower_ones) - 1) \o << x >>
               \o SubSeq(sorted, Min(lower_ones), Len(sorted))

\* list.sort(key = score, reverse = True): a stable sort, reverse or not
InsertDesc(sorted, x) ==
    LET lower_ones == {i \in DOMAIN sorted : ScoreGt(x.score, sorted[i].score)}
    IN  IF lower_ones = {} THEN Append(sorted, x)
        ELSE SubSeq(sorted, 1, Min(lower_ones) - 1) \o << x >>
               \o SubSeq(sorted, Min(lower_ones), Len(sorted))

RECURSIVE SortDescFrom(_, _, _)
SortDescFrom(sorted, items, i) ==
    IF i > Len(items) THEN sorted
    ELSE SortDescFrom(InsertDesc(sorted, items[i]), items, i + 1)

SortDesc(items) == SortDescFrom(<<>>, items, 1)

\* KeywordScore with the weights of code and name exchanged
KeywordScore_nameheavy(chunk, query_lower) ==
    (IF IsSubstring(query_lower, lower(chunk.full_code)) THEN 5 ELSE 0)
    + (IF chunk.name # <<>> /\ IsSubstring(query_lower, lower(chunk.name))
       THEN 10 ELSE 0)
    + (IF IsSubstring(query_lower, lower(chunk.file_path)) THEN 3 ELSE 0)

\* the score of _keyword_search, in tenths: 1.0 + 0.5 + 0.3
KeywordScore(chunk, query_lower) ==
    (IF IsSubstring(query_lower, lower(chunk.full_code)) THEN 10 ELSE 0)
    + (IF chunk.name # <<>> /\ IsSubstring(query_lower, lower(chunk.name))
       THEN 5 ELSE 0)
    + (IF IsSubstring(query_lower, lower(chunk.file_path)) THEN 3 ELSE 0)

keyword_search(cs, query, top_k) ==
    LET query_lower == lower(query)
        matching == SelectSeq([i \in DOMAIN cs |->
                                  Hit(cs, i, Score(KeywordScore(cs[i], query_lower), 10))],
                              LAMBDA h : h.score.p > 0)
    IN  Returned(Prefix(SortDesc(matching), top_k))

Dot(a, b) == a.v[1] * b.v[1] + a.v[2] * b.v[2]

\* x * |x|
SignedSquare(x) == IF x < 0 THEN -(x * x) ELSE x * x

\* np.dot(q, c) / (norm(q) * norm(c)), kept as cos * |cos|, which orders
\* as the cosine does; the vectors here are not zero
Cosine(q, c) == Score(SignedSquare(Dot(q, c)), Dot(q, q) * Dot(c, c))

\* np.dot of two vectors of different lengths raises ValueError;
\* self.chunks[idx] raises IndexError past the end of the list
manual_search(cs, embs, query_embedding, top_k) ==
    IF embs = <<>> THEN Returned(<<>>)
    ELSE IF \E i \in DOMAIN embs : embs[i].dim # query_embedding.dim THEN Raised
    ELSE LET similarities == [i \in DOMAIN embs |->
                                 [idx |-> i, score |-> Cosine(query_embedding, embs[i])]]
             top == Prefix(SortDesc(similarities), top_k)
         IN  IF \E n \in DOMAIN top : top[n].idx > Len(cs) THEN Raised
             ELSE Returned([n \in DOMAIN top |-> Hit(cs, top[n].idx, top[n].score)])

\* the squared distance IndexFlatL2 reports
L2(a, b) == (a.v[1] - b.v[1]) * (a.v[1] - b.v[1])
              + (a.v[2] - b.v[2]) * (a.v[2] - b.v[2])

\* IndexFlatL2.search(q, k) for 0 < k <= ntotal: the labels of the k nearest
\* vectors by increasing distance; faiss states no order among vectors at
\* the same distance, so every such order is a possible answer
IndexSearch(x, q, k) ==
    {r \in [1 .. k -> DOMAIN x] :
        /\ \A i, j \in 1 .. k : i < j =>
              (r[i] # r[j] /\ L2(q, x[r[i]]) <= L2(q, x[r[j]]))
        /\ \A o \in DOMAIN x :
              (\A i \in 1 .. k : r[i] # o) =>
                  \A i \in 1 .. k : L2(q, x[r[i]]) <= L2(q, x[o])}

\* the faiss branch of search: the binding asserts k > 0; with assertions
\* stripped a k of 0 gives empty arrays and a negative k makes np.empty raise
faiss_search(cs, x, query_embedding, top_k, asserts) ==
    LET k == IF top_k < Len(x) THEN top_k ELSE Len(x)
    IN  IF k < 0 \/ (k = 0 /\ asserts) THEN {Raised}
        ELSE {Returned(SelectSeq(
                  [n \in 1 .. k |->
                      [chunk |-> IF r[n] <= Len(cs) THEN cs[r[n]] ELSE <<>>,
                       idx   |-> r[n],
                       score |-> Score(1, 1 + L2(query_embedding, x[r[n]]))]],
                  LAMBDA h : h.idx <= Len(cs))) : r \in IndexSearch(x, query_embedding, k)}

\* the outcomes of search(query, top_k); query_embedding is what
\* generate_query_embedding returned for the query
search(s, faiss, query, query_embedding, top_k, asserts) ==
    IF s.chunks = <<>> THEN {Returned(<<>>)}
    ELSE IF query_embedding = None
    THEN {keyword_search(s.chunks, query, top_k)}
    ELSE IF faiss /\ Len(s.index) > 0
    THEN faiss_search(s.chunks, s.index, query_embedding, top_k, asserts)
    ELSE {manual_search(s.chunks, s.chunk_embeddings, query_embedding, top_k)}

\* the position of the first chunk with this path and name; 0 if there is none
TargetOf(cs, file_path, chunk_name) ==
    LET found == {i \in DOMAIN cs :
                     cs[i].file_path = file_path /\ cs[i].name = chunk_name}
    IN  IF found = {} THEN 0 ELSE Min(found)

\* results[1:]
DropFirst(results) == IF results = <<>> THEN <<>> ELSE Tail(results)

\* the outcomes of get_similar_chunks(file_path, chunk_name, top_k);
\* query_embedding is what generate_query_embedding returned for the code
\* of the target
get_similar_chunks(s, faiss, file_path, chunk_name, top_k, query_embedding, asserts) ==
    LET target == TargetOf(s.chunks, file_path, chunk_name)
    IN  IF target = 0 THEN {Returned(<<>>)}
        ELSE {IF o.raised THEN o ELSE Returned(DropFirst(o.results)) :
                 o \in search(s, faiss, s.chunks[target].full_code,
                              query_embedding, top_k + 1, asserts)}

\* ------------------------------------------------------------------ agent.py
\* the state of the loop of analyze_codebase; selected and failed record
\* which files entered the try block and which of them met an error
LoopState(s, tbl, ac, nc, sel, fl) ==
    [store |-> s, files |-> tbl, analyzed_count |-> ac,
     new_chunks_count |-> nc, selected |-> sel, failed |-> fl]

\* for chunk in chunks: add_chunk(...); new_chunks_count += 1
RECURSIVE AddChunks(_, _, _, _, _, _, _)
AddChunks(s, faiss, cks, i, file_path, language, embed_fail) ==
    IF i > Len(cks) THEN s
    ELSE AddChunks(add_chunk(s, faiss, cks[i], file_path, language,
                             <<file_path, i>> \notin embed_fail),
                   faiss, cks, i + 1, file_path, language, embed_fail)

\* one iteration of "for file_path in code_files"
AnalyzeOne(st, d, unr, faiss, file_path, force, changes, embed_fail, now) ==
    IF /\ ~force /\ changes # <<>>
       /\ ~\E i \in DOMAIN changes : changes[i].file_path = file_path
    THEN st
    ELSE IF unr[file_path]
    THEN [st EXCEPT !.selected = @ \cup {file_path},
                    !.failed = @ \cup {file_path}]
    ELSE LET content  == Read(d, file_path)
             language == detect_language(file_path)
             cks      == extract_chunks(file_path, content, language)
         IN  LoopState(
               AddChunks(st.store, faiss, cks, 1, file_path, language, embed_fail),
               store_file_metadata(st.files, file_path, content, language, now),
               st.analyzed_count + 1,
               st.new_chunks_count + Len(cks),
               st.selected \cup {file_path},
               st.failed \cup {p \in {file_path} :
                                  \E i \in DOMAIN cks : <<p, i>> \in embed_fail})

RECURSIVE AnalyzeLoop(_, _, _, _, _, _, _, _, _, _)
AnalyzeLoop(st, d, unr, faiss, code_files, i, force, changes, embed_fail, now) ==
    IF i > Len(code_files) THEN st
    ELSE AnalyzeLoop(
           AnalyzeOne(st, d, unr, faiss, code_files[i], force, changes,
                      embed_fail, now),
           d, unr, faiss, code_files, i + 1, force, changes, embed_fail, now)

\* the loop state when analyze_codebase(force_reanalyze = force) returns
AnalyzeResult(s, tbl, d, unr, isrepo, faiss, force, git_out, embed_fail, now) ==
    LET code_files == ingest_codebase(d)
        changes == IF ~force
                   THEN get_all_changes(tbl, d, unr, isrepo, git_out, code_files)
                   ELSE <<>>
    IN  AnalyzeLoop(LoopState(s, tbl, 0, 0, {}, {}), d, unr, faiss,
                    code_files, 1, force, changes, embed_fail, now)

\* ------------------------------------------------------------------ inputs
\* status codes "git status --porcelain" is taken to print
GitCodes == {"M", "??", "D", "R"}

\* what git prints during a run over tree d: nothing, or one line, about a
\* file of the tree that is untracked or modified or about a file that is gone
GitOutputs(d) ==
    {<<>>} \cup {<< <<c, p>> >> : c \in {"M", "??"}, p \in {q \in Paths : Exists(d, q)}}
           \cup {<< <<"D", p>> >> : p \in {q \in Paths : ~Exists(d, q)}}

\* the add_chunk calls whose embedding request fails: <<path, chunk number>>
EmbedCalls == {<<p, i>> : p \in Paths, i \in 1 .. 2}

EmbedFailures == {{}} \cup {{x} : x \in EmbedCalls}

NoSummary == [total_files |-> 0, analyzed_files |-> 0, new_chunks |-> 0,
              changes_detected |-> 0]

NoRun == [force |-> FALSE, code_files |-> <<>>, changes |-> <<>>,
          selected |-> {}, failed |-> {}, git_out |-> <<>>,
          disk |-> [p \in Paths |-> 0], unreadable |-> [p \in Paths |-> FALSE],
          chunks_before |-> <<>>, files_before |-> [p \in Paths |-> NoRecord],
          same_tree |-> FALSE, prev_clean |-> FALSE]

NoDet == [called |-> FALSE, file_paths |-> <<>>, git_out |-> <<>>,
          hash_changes |-> <<>>, all_changes |-> <<>>]

\* no search was made
NoSearch == [called |-> FALSE, query |-> <<>>, query_embedding |-> None,
             top_k |-> 0, asserts |-> TRUE, out |-> Returned(<<>>), target |-> 0]

\* nothing was saved or loaded: loads counts the constructions after the
\* first, load tells what the last of them met and produced, committed is
\* the store of the last save that ran to its end, pending that of the last
\* save that began, interrupted whether the process died inside that save
NoHist == [loads       |-> 0,
           load        |-> [missing |-> FALSE, fail_at |-> "none",
                            store |-> Store(<<>>, <<>>, <<>>)],
           committed   |-> Store(<<>>, <<>>, <<>>),
           pending     |-> Store(<<>>, <<>>, <<>>),
           interrupted |-> FALSE]

\* one thread only
NoThreads == <<>>

\* the chunkers were not called on their own
NoChunked == [by |-> "", content |-> <<>>, language |-> "", chunks |-> <<>>,
              analysis |-> [classes |-> <<>>, functions |-> <<>>]]

\* one process, one thread, which neither searches nor saves
Quiet ==
    /\ sr = NoSearch
    /\ alive = TRUE
    /\ save_pc = "idle"
    /\ hist = NoHist
    /\ threads = NoThreads
    /\ chunked = NoChunked

\* ------------------------------------------------------------------ actions
\* the two artifacts of the index directory, before anything was saved
NoIndexFile == [exists |-> FALSE, vectors |-> <<>>]

NoMetadataFile == [exists |-> FALSE, chunks |-> <<>>, embeddings |-> <<>>]

\* EmbeddingManager.save: faiss.write_index, when faiss is there
SaveIndexFile(faiss, x, old) ==
    IF faiss THEN [exists |-> TRUE, vectors |-> x] ELSE old

\* EmbeddingManager.save: pickle.dump
SaveMetadataFile(c, e) == [exists |-> TRUE, chunks |-> c, embeddings |-> e]

\* TechDocAgent.analyze_codebase(force_reanalyze = force)
AnalyzeCodebase(force, git_out, embed_fail) ==
    /\ runs < MaxRuns
    /\ \E code_files \in {ingest_codebase(disk)} :
       \E changes \in {IF ~force
                       THEN get_all_changes(files, disk, unreadable, is_git_repo,
                                            git_out, code_files)
                       ELSE <<>>} :
       \E st \in {AnalyzeLoop(LoopState(Store(chunks, chunk_embeddings, index),
                                        files, 0, 0, {}, {}),
                              disk, unreadable, FAISS_AVAILABLE, code_files, 1,
                              force, changes, embed_fail, runs + 1)} :
           /\ chunks' = st.store.chunks
           /\ chunk_embeddings' = st.store.chunk_embeddings
           /\ index' = st.store.index
           /\ files' = st.files
           /\ index_file' = SaveIndexFile(FAISS_AVAILABLE, st.store.index, index_file)
           /\ metadata_file' = SaveMetadataFile(st.store.chunks,
                                                st.store.chunk_embeddings)
           /\ summary' = [total_files      |-> Len(code_files),
                          analyzed_files   |-> st.analyzed_count,
                          new_chunks       |-> st.new_chunks_count,
                          changes_detected |-> Len(changes)]
           /\ run' = [force         |-> force,
                      code_files    |-> code_files,
                      changes       |-> changes,
                      selected      |-> st.selected,
                      failed        |-> st.failed,
                      git_out       |-> git_out,
                      disk          |-> disk,
                      unreadable    |-> unreadable,
                      chunks_before |-> chunks,
                      files_before  |-> files,
                      same_tree     |-> /\ runs >= 1
                                        /\ disk = run.disk
                                        /\ unreadable = run.unreadable
                                        /\ git_out = run.git_out,
                      prev_clean    |-> runs >= 1 /\ run.failed = {}]
    /\ runs' = runs + 1
    /\ UNCHANGED << disk, unreadable, is_git_repo, FAISS_AVAILABLE, det, aux >>

Analyze ==
    \E force \in BOOLEAN, embed_fail \in EmbedFailures :
        \E git_out \in (IF is_git_repo THEN GitOutputs(disk) ELSE {<<>>}) :
            AnalyzeCodebase(force, git_out, embed_fail)

\* the user creates or rewrites a file
WriteFile(p, t) ==
    /\ disk[p] # t
    /\ disk' = [disk EXCEPT ![p] = t]
    /\ unreadable' = [unreadable EXCEPT ![p] = FALSE]
    /\ UNCHANGED << is_git_repo, FAISS_AVAILABLE, files, chunks, chunk_embeddings,
                    index, index_file, metadata_file, runs, summary, run, det, aux >>

\* the user removes a file
RemoveFile(p) ==
    /\ disk[p] # 0
    /\ disk' = [disk EXCEPT ![p] = 0]
    /\ unreadable' = [unreadable EXCEPT ![p] = FALSE]
    /\ UNCHANGED << is_git_repo, FAISS_AVAILABLE, files, chunks, chunk_embeddings,
                    index, index_file, metadata_file, runs, summary, run, det, aux >>

\* the permissions of a file change
Chmod(p) ==
    /\ MayBeUnreadable(p)
    /\ disk[p] # 0
    /\ unreadable' = [unreadable EXCEPT ![p] = ~@]
    /\ UNCHANGED << disk, is_git_repo, FAISS_AVAILABLE, files, chunks,
                    chunk_embeddings, index, index_file, metadata_file, runs,
                    summary, run, det, aux >>

Init ==
    /\ disk \in {d \in [Paths -> {0} \cup Contents] :
                   \A p \in Paths : d[p] \in {0} \cup TextsOf(p)}
    /\ unreadable = [p \in Paths |-> FALSE]
    /\ is_git_repo \in BOOLEAN
    /\ FAISS_AVAILABLE \in BOOLEAN
    /\ files = [p \in Paths |-> NoRecord]
    /\ chunks = <<>>
    /\ chunk_embeddings = <<>>
    /\ index = <<>>
    /\ index_file = NoIndexFile
    /\ metadata_file = NoMetadataFile
    /\ runs = 0
    /\ summary = NoSummary
    /\ run = NoRun
    /\ det = NoDet
    /\ Quiet

Next ==
    \/ Analyze
    \/ \E p \in Paths : \E t \in TextsOf(p) : WriteFile(p, t)
    \/ \E p \in Paths : RemoveFile(p)
    \/ \E p \in Paths : Chmod(p)

Spec == Init /\ [][Next]_vars

\* ------------------------------------------------------------------ the change detector on its own
\* every tree, readable or not
AllTrees == [Paths -> {0} \cup Contents]

\* a row stored by an earlier analysis of text t
RowOf(p, t) == [content_hash  |-> compute_file_hash(FileTexts[t]),
                language      |-> detect_language(p),
                last_analyzed |-> 1]

AllTables == {tbl \in [Paths -> {NoRecord} \cup
                                 UNION {{RowOf(p, t) : t \in Contents} : p \in Paths}] :
                 \A p \in Paths : tbl[p] = NoRecord \/ tbl[p].language = detect_language(p)}

\* sub-lists of PathSeq
PathLists == {SelectSeq(PathSeq, LAMBDA p : p \in S) : S \in SUBSET Paths}

\* any lines of git output, two lines about one path included
GitReports ==
    UNION {[1 .. n -> {<<c, p>> : c \in GitCodes, p \in Paths}] : n \in 0 .. MaxGitLines}

InitDetect ==
    /\ disk \in AllTrees
    /\ unreadable \in {u \in [Paths -> BOOLEAN] : \A p \in Paths : u[p] => disk[p] # 0}
    /\ is_git_repo \in BOOLEAN
    /\ FAISS_AVAILABLE = TRUE
    /\ files \in AllTables
    /\ chunks = <<>>
    /\ chunk_embeddings = <<>>
    /\ index = <<>>
    /\ index_file = NoIndexFile
    /\ metadata_file = NoMetadataFile
    /\ runs = 0
    /\ summary = NoSummary
    /\ run = NoRun
    /\ det = NoDet
    /\ Quiet

\* ChangeDetector.get_changed_files_hash and get_all_changes on one input
Detect(file_paths, git_out) ==
    /\ ~det.called
    /\ det' = [called       |-> TRUE,
               file_paths   |-> file_paths,
               git_out      |-> git_out,
               hash_changes |-> get_changed_files_hash(files, disk, unreadable,
                                                       file_paths),
               all_changes  |-> get_all_changes(files, disk, unreadable,
                                                is_git_repo, git_out, file_paths)]
    /\ UNCHANGED << disk, unreadable, is_git_repo, FAISS_AVAILABLE, files, chunks,
                    chunk_embeddings, index, index_file, metadata_file, runs,
                    summary, run, aux >>

NextDetect == \E file_paths \in PathLists, git_out \in GitReports :
                  Detect(file_paths, git_out)

SpecDetect == InitDetect /\ [][NextDetect]_vars

\* ------------------------------------------------------------------ properties
RecordsFor(cs, p) == {i \in DOMAIN cs : cs[i].file_path = p}

HasOne(cs, p, t) ==
    /\ Cardinality(RecordsFor(cs, p)) = 1
    /\ \A i \in RecordsFor(cs, p) : cs[i].change_type = t

Stored(tbl, p) == tbl[p] # NoRecord

HashDiffers(tbl, d, p) ==
    tbl[p].content_hash # compute_file_hash(FileTexts[d[p]])

\* C4 (as claimed): get_changed_files_hash emits, for each path, 'added' when
\* the file exists and has no stored record, 'modified' when a stored record
\* exists and the content hash differs, nothing when the hash is equal,
\* 'deleted' when a stored record exists and the path is not among the
\* current paths; no path gets more than one record.
C4_AsClaimed ==
    det.called =>
      \A p \in Paths :
        LET H     == det.hash_changes
            inCur == p \in Range(det.file_paths)
        IN  /\ Cardinality(RecordsFor(H, p)) <= 1
            /\ (inCur /\ Exists(disk, p) /\ ~Stored(files, p)) => HasOne(H, p, "added")
            /\ (inCur /\ Exists(disk, p) /\ Stored(files, p) /\ HashDiffers(files, disk, p))
                  => HasOne(H, p, "modified")
            /\ (inCur /\ Exists(disk, p) /\ Stored(files, p) /\ ~HashDiffers(files, disk, p))
                  => RecordsFor(H, p) = {}
            /\ (Stored(files, p) /\ ~inCur) => HasOne(H, p, "deleted")

\* C4 (amended): the classification above holds for the files that can be
\* read; an existing file that cannot be read gets no record; a path with a
\* stored record gets 'deleted' when it is not among the current paths or
\* names no existing file; a path without stored record that is not a
\* current existing file gets no record; no path gets more than one record.
C4_Classification ==
    det.called =>
      \A p \in Paths :
        LET H     == det.hash_changes
            inCur == p \in Range(det.file_paths)
            canRead == inCur /\ Exists(disk, p) /\ ~unreadable[p]
        IN  /\ Cardinality(RecordsFor(H, p)) <= 1
            /\ (canRead /\ ~Stored(files, p)) => HasOne(H, p, "added")
            /\ (canRead /\ Stored(files, p) /\ HashDiffers(files, disk, p))
                  => HasOne(H, p, "modified")
            /\ (canRead /\ Stored(files, p) /\ ~HashDiffers(files, disk, p))
                  => RecordsFor(H, p) = {}
            /\ (inCur /\ Exists(disk, p) /\ unreadable[p]) => RecordsFor(H, p) = {}
            /\ (Stored(files, p) /\ (~inCur \/ ~Exists(disk, p)))
                  => HasOne(H, p, "deleted")
            /\ (~Stored(files, p) /\ (~inCur \/ ~Exists(disk, p)))
                  => RecordsFor(H, p) = {}

\* a call that sees a new file, a file that cannot be read, and emits a record
C4_Witness ==
    /\ det.called
    /\ \E p, q \in Paths :
         /\ p \in Range(det.file_paths) /\ Exists(disk, p) /\ unreadable[p]
         /\ ~Stored(files, p)
         /\ HasOne(det.hash_changes, q, "modified")

GitLinesFor(p) ==
    IF is_git_repo THEN {i \in DOMAIN det.git_out : det.git_out[i][2] = p} ELSE {}

Max(S) == CHOOSE x \in S : \A y \in S : y <= x

\* C10: a path that both git and the hash comparison report appears once in
\* the result of get_all_changes, with git's classification (that of the
\* last line git printed about the path); a path that only one of them
\* reports appears once with that one's classification.
C10_GitWins ==
    det.called =>
      \A p \in Paths :
        LET A == det.all_changes
            H == det.hash_changes
        IN  /\ (GitLinesFor(p) # {}) =>
                  HasOne(A, p, parse_git_status(det.git_out[Max(GitLinesFor(p))][1]))
            /\ (GitLinesFor(p) = {}) =>
                  \A i \in RecordsFor(H, p) : HasOne(A, p, H[i].change_type)

\* git and the hash comparison classify the same path differently
C10_Witness ==
    /\ det.called
    /\ \E p \in Paths :
         \E i \in GitLinesFor(p), k \in RecordsFor(det.hash_changes, p) :
            /\ parse_git_status(det.git_out[i][1]) # det.hash_changes[k].change_type
            /\ \E q \in Paths \ {p} :
                  GitLinesFor(q) = {} /\ RecordsFor(det.hash_changes, q) # {}

\* ------------------------------------------------------------------ properties of analyze_codebase
\* the entries a file's content at the time of the last run gives rise to
CurrentEntries(p) ==
    LET language == detect_language(p)
        cks == extract_chunks(p, Read(run.disk, p), language)
    IN  {ChunkMetadata(cks[i], p, language) : i \in DOMAIN cks}

\* C1: after a completed run, a second non-forced run on the unchanged tree
\* re-indexes no file and leaves the embedding entries as they were.
C1_Idempotent ==
    (runs >= 2 /\ ~run.force /\ run.same_tree /\ run.prev_clean) =>
       /\ summary.analyzed_files = 0
       /\ chunks = run.chunks_before

\* C2: once a modified file has been re-indexed, every entry of the index
\* for its path comes from its current content, and every chunk of the
\* current content has an entry (search_by_file returns the new chunks only).
C2_StalenessFree ==
    runs >= 1 =>
      \A p \in run.selected \ run.failed :
        ( /\ Stored(run.files_before, p)
          /\ HashDiffers(run.files_before, run.disk, p) ) =>
            Range(search_by_file(chunks, p)) = CurrentEntries(p)

\* C3: a path that was indexed and tracked and is absent from the tree at
\* the next run has, after that run, no entry in the index and no File Record.
C3_DeletionCorrect ==
    runs >= 1 =>
      \A p \in Paths :
        ( /\ Stored(run.files_before, p)
          /\ search_by_file(run.chunks_before, p) # <<>>
          /\ p \notin Range(run.code_files) ) =>
            /\ search_by_file(chunks, p) = <<>>
            /\ ~Stored(files, p)

\* C5: in a non-forced run an enumerated file is re-chunked and re-embedded
\* exactly when the change detector emitted 'added' or 'modified' for it.
C5_OnlyChangedFiles ==
    (runs >= 1 /\ ~run.force) =>
      \A f \in Range(run.code_files) :
        (f \in run.selected /\ ~run.unreadable[f]) <=>
          \E i \in DOMAIN run.changes :
             /\ run.changes[i].file_path = f
             /\ run.changes[i].change_type \in {"added", "modified"}

\* C6: a file whose processing failed in a run (it could not be read, or the
\* embedding of one of its chunks failed) keeps the File Record it had
\* before the run.
C6_FailedFileNotRecorded ==
    runs >= 1 => \A p \in run.failed : files[p] = run.files_before[p]

\* the enumerated files of the last run that could not be read or processed
Unprocessed == {p \in Range(run.code_files) : run.unreadable[p] \/ p \in run.failed}

\* C7: a run over n files, every one of which is to be indexed (a forced run,
\* or a run with nothing tracked yet), of which u cannot be read or processed
\* reports files_scanned = n and files_reindexed = n - u.
C7_PartialFailureCounts ==
    (runs >= 1 /\ (run.force \/ \A p \in Paths : ~Stored(run.files_before, p))) =>
       /\ summary.total_files = Len(run.code_files)
       /\ summary.analyzed_files = Len(run.code_files) - Cardinality(Unprocessed)

\* C8: the chunk count of the run summary is the number of embedding entries
\* the run inserted into the index.
C8_ExactChunkCount ==
    runs >= 1 => summary.new_chunks = Len(chunks) - Len(run.chunks_before)

\* the index a forced run over the tree of the last run builds from an
\* empty store
FreshIndex ==
    AnalyzeResult(Store(<<>>, <<>>, <<>>), [p \in Paths |-> NoRecord],
                  run.disk, run.unreadable, is_git_repo, FAISS_AVAILABLE,
                  TRUE, <<>>, {}, runs).store.chunks

\* C9: after a forced run on a store that holds entries of earlier runs,
\* every enumerated file has been processed and the index holds exactly the
\* entries a run over the same tree on an empty store produces.
C9_ForcedRebuildExact ==
    (runs >= 1 /\ run.force /\ run.failed = {} /\ run.chunks_before # <<>>) =>
       /\ run.selected = Range(run.code_files)
       /\ chunks = FreshIndex

\* C11: in a non-forced run, a readable file whose content hash equals the
\* hash of its File Record is not re-chunked or re-embedded when git reports
\* its path as changed.
C11_HashDecides ==
    (runs >= 1 /\ ~run.force) =>
      \A f \in Range(run.code_files) :
        ( /\ Stored(run.files_before, f)
          /\ ~HashDiffers(run.files_before, run.disk, f)
          /\ ~run.unreadable[f]
          /\ \E i \in DOMAIN run.git_out : run.git_out[i][2] = f ) =>
            f \notin run.selected

\* ------------------------------------------------------------------ the store on its own
\* the chunks given to add_chunk, each with its file path and the vector the
\* embed collaborator gives for its text
Entry(name, code, file_path, x, y) ==
    [chunk     |-> [type |-> "function", name |-> name, start_line |-> 1,
                    end_line |-> 1, code |-> code],
     file_path |-> file_path,
     vec       |-> Vec(dimension, x, y)]

Catalogue ==
    { Entry(<<"f">>, <<"x", "a">>, <<"p">>,      1, 0),
      Entry(<<"A">>, <<"x">>,      <<"p">>,      1, 0),
      Entry(<<"f">>, <<"x">>,      <<"a">>,      0, 1),
      Entry(<<"a">>, <<"x">>,      <<"p", "a">>, 2, 0),
      Entry(<<"f">>, <<"y">>,      <<"p">>,      1, 1) }

\* a query and the vector the embed collaborator gives for it
Queries ==
    { [text |-> <<"A">>, vec |-> Vec(dimension, 1, 1)],
      [text |-> <<"x">>, vec |-> Vec(dimension, 1, 0)] }

\* what the collaborator may answer to add_chunk: the vector of the text,
\* an error, or a vector of another length
Answers == {"vector", "error", "other_dimension"}

AnswerOf(e, answer) ==
    CASE answer = "vector" -> e.vec
      [] answer = "error"  -> None
      [] OTHER             -> [e.vec EXCEPT !.dim = dimension + 1]

TopKs == (0 - 1) .. MaxK

InitStore ==
    /\ disk = [p \in Paths |-> 0]
    /\ unreadable = [p \in Paths |-> FALSE]
    /\ is_git_repo = FALSE
    /\ FAISS_AVAILABLE \in BOOLEAN
    /\ files = [p \in Paths |-> NoRecord]
    /\ chunks = <<>>
    /\ chunk_embeddings = <<>>
    /\ index = <<>>
    /\ index_file = NoIndexFile
    /\ metadata_file = NoMetadataFile
    /\ runs = 0
    /\ summary = NoSummary
    /\ run = NoRun
    /\ det = NoDet
    /\ Quiet

\* EmbeddingManager.add_chunk(chunk, file_path, 'Python')
AddChunk(e, answer, asserts) ==
    /\ ~sr.called
    /\ alive /\ save_pc = "idle"
    /\ Len(chunks) < MaxEntries
    /\ \E st \in {AddEmbedded(Store(chunks, chunk_embeddings, index), FAISS_AVAILABLE,
                              e.chunk, e.file_path, "Python",
                              AnswerOf(e, answer), asserts)} :
          /\ chunks' = st.chunks
          /\ chunk_embeddings' = st.chunk_embeddings
          /\ index' = st.index
    /\ UNCHANGED << disk, unreadable, is_git_repo, FAISS_AVAILABLE, files,
                    index_file, metadata_file, runs, summary, run, det, aux >>

\* EmbeddingManager.search(query, top_k); up: whether the collaborator answers
Search(q, up, top_k, asserts) ==
    /\ ~sr.called
    /\ alive /\ save_pc = "idle"
    /\ \E query_embedding \in {IF up THEN q.vec ELSE None} :
       \E out \in search(Store(chunks, chunk_embeddings, index), FAISS_AVAILABLE,
                         q.text, query_embedding, top_k, asserts) :
          sr' = [called |-> TRUE, query |-> q.text,
                 query_embedding |-> query_embedding, top_k |-> top_k,
                 asserts |-> asserts, out |-> out, target |-> 0]
    /\ UNCHANGED << disk, unreadable, is_git_repo, FAISS_AVAILABLE, files, chunks,
                    chunk_embeddings, index, index_file, metadata_file, runs,
                    summary, run, det, alive, save_pc, hist, threads, chunked >>

NextStore ==
    \/ \E e \in Catalogue, answer \in Answers, asserts \in BOOLEAN :
          AddChunk(e, answer, asserts)
    \/ \E q \in Queries, up \in BOOLEAN, top_k \in TopKs, asserts \in BOOLEAN :
          Search(q, up, top_k, asserts)

SpecStore == InitStore /\ [][NextStore]_vars

\* the store while the collaborator answers add_chunk with vectors of the
\* store's dimension, or not at all
NextSearch ==
    \/ \E e \in Catalogue, answer \in {"vector", "error"} : AddChunk(e, answer, TRUE)
    \/ \E q \in Queries, up \in BOOLEAN, top_k \in TopKs, asserts \in BOOLEAN :
          Search(q, up, top_k, asserts)

SpecSearch == InitStore /\ [][NextSearch]_vars

\* ------------------------------------------------------------------ properties of search
\* the positions at which stored entry i appears in a result
PositionsOf(results, i) == {n \in DOMAIN results : results[n].idx = i}

\* the search went through the faiss index
UsedFaiss == FAISS_AVAILABLE /\ Len(index) > 0

\* the similarity of stored entry i to the query of the search, as the
\* branch taken measures it
Similarity(i) ==
    IF UsedFaiss THEN Score(1, 1 + L2(sr.query_embedding, chunk_embeddings[i]))
    ELSE Cosine(sr.query_embedding, chunk_embeddings[i])

NonIncreasing(results) ==
    \A m, n \in DOMAIN results :
        m < n => ~ScoreGt(results[n].score, results[m].score)

\* C12: a search with a query the collaborator embeds and k >= 0 returns at
\* most k results, ordered by non-increasing score, and no stored entry
\* that is left out is more similar to the query than one that is returned.
C12_SearchShape ==
    (sr.called /\ sr.query_embedding # None /\ sr.top_k >= 0) =>
       /\ ~sr.out.raised
       /\ Len(sr.out.results) <= sr.top_k
       /\ NonIncreasing(sr.out.results)
       /\ \A i \in DOMAIN chunks :
             PositionsOf(sr.out.results, i) = {} =>
                \A n \in DOMAIN sr.out.results :
                    ~ScoreGt(Similarity(i), sr.out.results[n].score)

\* the fields of a stored entry that contain the query, letter case aside
InCode(c) == IsSubstring(lower(sr.query), lower(c.full_code))

InName(c) == IsSubstring(lower(sr.query), lower(c.name))

InPath(c) == IsSubstring(lower(sr.query), lower(c.file_path))

\* C13: when the query cannot be embedded, search does not raise; it returns
\* at most k entries, each of which contains the query (letter case aside)
\* in its code, name or path, by non-increasing score; an entry whose code
\* contains the query scores higher than one that matches by name or path
\* only, and one that matches by name only scores higher than one that
\* matches by path only.
C13_KeywordFallback ==
    (sr.called /\ sr.query_embedding = None /\ sr.top_k >= 0) =>
       LET R == sr.out.results
       IN  /\ ~sr.out.raised
           /\ Len(R) <= sr.top_k
           /\ NonIncreasing(R)
           /\ \A n \in DOMAIN R :
                 /\ R[n].chunk = chunks[R[n].idx]
                 /\ InCode(R[n].chunk) \/ InName(R[n].chunk) \/ InPath(R[n].chunk)
           /\ \A m, n \in DOMAIN R :
                 /\ (InCode(R[m].chunk) /\ ~InCode(R[n].chunk))
                       => ScoreGt(R[m].score, R[n].score)
                 /\ ( /\ InName(R[m].chunk) /\ ~InCode(R[m].chunk) /\ ~InPath(R[m].chunk)
                      /\ InPath(R[n].chunk) /\ ~InCode(R[n].chunk) /\ ~InName(R[n].chunk) )
                       => ScoreGt(R[m].score, R[n].score)

\* a fallback search that returns an entry matching by code before one
\* matching by name only, and leaves a matching entry out because of k
C13_Witness ==
    /\ sr.called /\ sr.query_embedding = None
    /\ Len(sr.out.results) = 2 /\ sr.top_k = 2
    /\ InCode(sr.out.results[1].chunk)
    /\ ~InCode(sr.out.results[2].chunk) /\ InName(sr.out.results[2].chunk)
    /\ \E i \in DOMAIN chunks :
          /\ PositionsOf(sr.out.results, i) = {}
          /\ InPath(chunks[i])

\* the score of stored entry i for the query of the search
ScoreOf(i) ==
    IF sr.query_embedding = None
    THEN Score(KeywordScore(chunks[i], lower(sr.query)), 10)
    ELSE Similarity(i)

\* stored entries i and j have the same score for the query of the search
Tied(i, j) ==
    /\ chunk_embeddings[i].dim = dimension
    /\ chunk_embeddings[j].dim = dimension
    /\ ~ScoreGt(ScoreOf(i), ScoreOf(j))
    /\ ~ScoreGt(ScoreOf(j), ScoreOf(i))

\* wherever the later of two entries appears, the earlier appears before it
FirstInsertedFirst ==
    \A i, j \in DOMAIN chunks :
       (i < j /\ Tied(i, j)) =>
          \A n \in PositionsOf(sr.out.results, j) :
             \E m \in PositionsOf(sr.out.results, i) : m < n

C18_DimensionChecked ==
    /\ \A i \in DOMAIN chunk_embeddings : chunk_embeddings[i].dim = dimension
    /\ Len(chunks) = Len(chunk_embeddings)
    /\ FAISS_AVAILABLE => Len(index) = Len(chunks)

\* ------------------------------------------------------------------ the store and its directory
\* the entries saved and loaded
PersistCatalogue ==
    { Entry(<<"f">>, <<"x", "a">>, <<"p">>, 1, 0),
      Entry(<<"g">>, <<"y">>,      <<"p">>, 0, 1) }

\* save(), first half: faiss.write_index(self.index, ...)
SaveIndex ==
    /\ alive /\ save_pc = "idle"
    /\ index_file' = SaveIndexFile(FAISS_AVAILABLE, index, index_file)
    /\ save_pc' = "index_written"
    /\ hist' = [hist EXCEPT !.pending = Store(chunks, chunk_embeddings, index)]
    /\ UNCHANGED << disk, unreadable, is_git_repo, FAISS_AVAILABLE, files, chunks,
                    chunk_embeddings, index, metadata_file, runs, summary, run,
                    det, sr, alive, threads, chunked >>

\* save(), second half: pickle.dump of the two lists
SaveMetadata ==
    /\ alive /\ save_pc = "index_written"
    /\ metadata_file' = SaveMetadataFile(chunks, chunk_embeddings)
    /\ save_pc' = "idle"
    /\ hist' = [hist EXCEPT !.committed = hist.pending, !.interrupted = FALSE]
    /\ UNCHANGED << disk, unreadable, is_git_repo, FAISS_AVAILABLE, files, chunks,
                    chunk_embeddings, index, index_file, runs, summary, run,
                    det, sr, alive, threads, chunked >>

\* the process ends or is killed, wherever it stands; what it held in
\* memory is gone
Kill ==
    /\ alive
    /\ hist.loads < MaxLoads
    /\ alive' = FALSE
    /\ save_pc' = "idle"
    /\ chunks' = <<>>
    /\ chunk_embeddings' = <<>>
    /\ index' = <<>>
    /\ hist' = [hist EXCEPT !.interrupted = @ \/ save_pc = "index_written"]
    /\ UNCHANGED << disk, unreadable, is_git_repo, FAISS_AVAILABLE, files,
                    index_file, metadata_file, runs, summary, run, det, sr,
                    threads, chunked >>

\* EmbeddingManager.__init__ in a new process: _load_or_create_index
Construct(fail_at) ==
    /\ ~alive
    /\ \E st \in {load_or_create_index(index_file, metadata_file,
                                       FAISS_AVAILABLE, fail_at)} :
          /\ chunks' = st.chunks
          /\ chunk_embeddings' = st.chunk_embeddings
          /\ index' = st.index
          /\ hist' = [hist EXCEPT
                        !.loads = @ + 1,
                        !.load = [missing |-> ~index_file.exists \/ ~metadata_file.exists,
                                  fail_at |-> IF index_file.exists /\ metadata_file.exists
                                                 /\ FAISS_AVAILABLE
                                              THEN fail_at ELSE "none",
                                  store   |-> st]]
    /\ alive' = TRUE
    /\ UNCHANGED << disk, unreadable, is_git_repo, FAISS_AVAILABLE, files,
                    index_file, metadata_file, runs, summary, run, det, sr,
                    save_pc, threads, chunked >>

NextPersist ==
    \/ \E e \in PersistCatalogue : AddChunk(e, "vector", TRUE)
    \/ SaveIndex
    \/ SaveMetadata
    \/ Kill
    \/ \E fail_at \in LoadFailures : Construct(fail_at)

SpecPersist == InitStore /\ [][NextPersist]_vars

\* ------------------------------------------------------------------ properties of load and save
EmptyStore == Store(<<>>, <<>>, <<>>)

\* C15: when one of the two artifacts is missing, or reading them raises at
\* any step, the construction of the store completes and leaves the store
\* empty: no metadata entry, no stored vector, no vector in the index.
C15_LoadNeverFails ==
    (hist.loads >= 1 /\ (hist.load.missing \/ hist.load.fail_at # "none")) =>
       hist.load.store = EmptyStore

\* a load that found both artifacts, with entries in them, and met an
\* exception after self.chunks had been assigned
C15_Witness ==
    /\ hist.loads >= 1 /\ alive
    /\ hist.load.fail_at = "embeddings"
    /\ metadata_file.chunks # <<>> /\ index_file.vectors # <<>>
    /\ chunks = <<>> /\ chunk_embeddings = <<>> /\ index = <<>>

\* C16: after a load the faiss index holds as many vectors as there are
\* metadata entries; artifacts with different numbers of entries give an
\* empty store.
C16_CountMismatchReinit ==
    (hist.loads >= 1 /\ FAISS_AVAILABLE) =>
       Len(hist.load.store.index) = Len(hist.load.store.chunks)

\* C17: after a save that was interrupted between its two writes, a load
\* that reads both artifacts without error gives the store of the last
\* save that ran to its end or the store of the interrupted save, never
\* the index of one with the metadata of the other.
C17_AtomicPersist ==
    ( /\ hist.loads >= 1 /\ FAISS_AVAILABLE /\ hist.interrupted
      /\ hist.load.fail_at = "none" ) =>
         hist.load.store \in {hist.committed, hist.pending}

\* ------------------------------------------------------------------ threads on one store
\* Two threads re-index one path each while a third may search.  The store
\* has no operation that removes entries: re-indexing a path is the loop of
\* analyze_codebase over the chunks of its file, one add_chunk per chunk.
PathP == <<"p">>

PathQ == <<"q">>

\* the entries of a path before re-indexing and those of its new content
OldOf(file_path) ==
    IF file_path = PathP THEN << Entry(<<"f">>, <<"x">>, PathP, 1, 0) >>
    ELSE << Entry(<<"h">>, <<"x">>, PathQ, 1, 1) >>

NewOf(file_path) ==
    IF file_path = PathP
    THEN << Entry(<<"f">>, <<"x", "x">>, PathP, 2, 0),
            Entry(<<"g">>, <<"x">>, PathP, 0, 1) >>
    ELSE << Entry(<<"h">>, <<"x", "y">>, PathQ, 1, 1) >>

\* the path each thread re-indexes
WriterPath == << PathP, PathQ >>

Writers == DOMAIN WriterPath

MetadataOf(e) == ChunkMetadata(e.chunk, e.file_path, "Python")

\* the store after every path was indexed once
IndexedOnce == << OldOf(PathP)[1], OldOf(PathQ)[1] >>

InitThreads ==
    /\ disk = [p \in Paths |-> 0]
    /\ unreadable = [p \in Paths |-> FALSE]
    /\ is_git_repo = FALSE
    /\ FAISS_AVAILABLE \in BOOLEAN
    /\ files = [p \in Paths |-> NoRecord]
    /\ chunks = [i \in DOMAIN IndexedOnce |-> MetadataOf(IndexedOnce[i])]
    /\ chunk_embeddings = [i \in DOMAIN IndexedOnce |-> IndexedOnce[i].vec]
    /\ index = IF FAISS_AVAILABLE
               THEN [i \in DOMAIN IndexedOnce |-> IndexedOnce[i].vec] ELSE <<>>
    /\ index_file = NoIndexFile
    /\ metadata_file = NoMetadataFile
    /\ runs = 0
    /\ summary = NoSummary
    /\ run = NoRun
    /\ det = NoDet
    /\ sr = NoSearch
    /\ alive = TRUE
    /\ save_pc = "idle"
    /\ hist = NoHist
    /\ threads = [w \in Writers |-> [i |-> 1, pc |-> "idle"]]
    /\ chunked = NoChunked

\* the chunk thread w is adding
Adding(w) == NewOf(WriterPath[w])[threads[w].i]

\* add_chunk, self.chunks.append(chunk_metadata)
AppendMetadata(w) ==
    /\ ~sr.called
    /\ threads[w].pc = "idle"
    /\ threads[w].i <= Len(NewOf(WriterPath[w]))
    /\ chunks' = Append(chunks, MetadataOf(Adding(w)))
    /\ threads' = [threads EXCEPT ![w].pc = "metadata_appended"]
    /\ UNCHANGED << disk, unreadable, is_git_repo, FAISS_AVAILABLE, files,
                    chunk_embeddings, index, index_file, metadata_file, runs,
                    summary, run, det, sr, alive, save_pc, hist, chunked >>

\* add_chunk, self.chunk_embeddings.append(embedding)
AppendEmbedding(w) ==
    /\ ~sr.called
    /\ threads[w].pc = "metadata_appended"
    /\ chunk_embeddings' = Append(chunk_embeddings, Adding(w).vec)
    /\ threads' = [threads EXCEPT ![w].pc = "embedding_appended"]
    /\ UNCHANGED << disk, unreadable, is_git_repo, FAISS_AVAILABLE, files, chunks,
                    index, index_file, metadata_file, runs, summary, run, det,
                    sr, alive, save_pc, hist, chunked >>

\* add_chunk, self.index.add(...), and the return to the loop
AddToIndex(w) ==
    /\ ~sr.called
    /\ threads[w].pc = "embedding_appended"
    /\ index' = IF FAISS_AVAILABLE
                THEN IndexAdd(index, Adding(w).vec, TRUE).index ELSE index
    /\ threads' = [threads EXCEPT ![w] = [i |-> @.i + 1, pc |-> "idle"]]
    /\ UNCHANGED << disk, unreadable, is_git_repo, FAISS_AVAILABLE, files, chunks,
                    chunk_embeddings, index_file, metadata_file, runs, summary,
                    run, det, sr, alive, save_pc, hist, chunked >>

\* a search for the text every entry contains, asking for as many results
\* as there are entries
SearchAll ==
    \E q \in {qq \in Queries : qq.text = <<"x">>}, up \in BOOLEAN :
        Search(q, up, Len(chunks), TRUE)

NextThreads ==
    \/ \E w \in Writers : AppendMetadata(w)
    \/ \E w \in Writers : AppendEmbedding(w)
    \/ \E w \in Writers : AddToIndex(w)
    \/ SearchAll

SpecThreads == InitThreads /\ [][NextThreads]_vars

\* ------------------------------------------------------------------ properties of concurrent use
\* the entries of a path that the search returned
SeenOf(file_path) ==
    {sr.out.results[n].chunk : n \in {m \in DOMAIN sr.out.results :
                                         sr.out.results[m].chunk.file_path = file_path}}

EntriesOf(es) == {MetadataOf(es[i]) : i \in DOMAIN es}

\* thread w is between the first and the last step of an add_chunk
InsideAddChunk(w) == threads[w].pc # "idle"

\* C19: a search that runs at any point of the re-indexing of a path
\* returns, for that path, all of its old entries or all of its new ones,
\* and no two threads are inside a mutation of the store at the same time.
C19_NoHalfMutation ==
    /\ (sr.called /\ ~sr.out.raised) =>
          \A w \in Writers :
             \/ SeenOf(WriterPath[w]) = EntriesOf(OldOf(WriterPath[w]))
             \/ SeenOf(WriterPath[w]) = EntriesOf(NewOf(WriterPath[w]))
    /\ \A v, w \in Writers : (InsideAddChunk(v) /\ InsideAddChunk(w)) => v = w

\* ------------------------------------------------------------------ techdocagent/chunking.py
\* file_content.splitlines(): a newline at the end of the content ends its
\* last line and starts no new one, so the empty piece that split('\n')
\* yields after it is not a line; the empty content has no line.
splitlines(content) ==
    IF content[Len(content)] = EmptyLine
    THEN SubSeq(content, 1, Len(content) - 1) ELSE content

\* ^(def|class)\s+(\w+)\s*\(?.*\)?: under re.MULTILINE: the keyword stands in
\* column 0; the matches in source order, each with the line it starts on
RECURSIVE CodeMatches(_, _)
CodeMatches(content, j) ==
    IF j > Len(content) THEN <<>>
    ELSE IF content[j].kind \in {"def", "class"} /\ content[j].ind = 0
         THEN << [type |-> content[j].kind, name |-> content[j].name, line |-> j] >>
              \o CodeMatches(content, j + 1)
         ELSE CodeMatches(content, j + 1)

\* the single chunk for a content without matches or in another language
WholeFile(content, lines) ==
    << [type       |-> "file",
        name       |-> "",
        start_line |-> 1,
        end_line   |-> Len(lines),
        code       |-> content] >>

chunk_code(file_content, language) ==
    LET lines == splitlines(file_content)
        matches == IF language = "Python" THEN CodeMatches(file_content, 1) ELSE <<>>
    IN  IF matches = <<>> THEN WholeFile(file_content, lines)
        ELSE [i \in DOMAIN matches |->
                 LET \* file_content[:matches[i+1].start()].count('\n')
                     end_line == IF i + 1 <= Len(matches)
                                 THEN matches[i + 1].line - 1 ELSE Len(lines)
                 IN  [type       |-> matches[i].type,
                      name       |-> matches[i].name,
                      start_line |-> matches[i].line,
                      end_line   |-> end_line,
                      code       |-> Join(Slice(lines, matches[i].line - 1, end_line))]]

\* ------------------------------------------------------------------ the chunkers on their own
\* the pieces a content is made of
Pieces == { Ln(0, "def", "a"), Ln(4, "def", "m"), Ln(0, "class", "b"),
            Ln(4, "code", "x = 1"), EmptyLine }

\* content.split('\n') yields at least one piece; the empty content is the
\* single empty piece, a content with a newline at its end ends with one
ChunkContents == UNION {[1 .. n -> Pieces] : n \in 1 .. MaxPieces}

\* the pieces of a content in a language with braces
BracePieces == { Ln(0, "function", "f"), Ln(0, "function_open", "g"),
                 Ln(0, "function_closed", "h"), Ln(0, "open", ""),
                 Ln(0, "close", ""), Ln(0, "close_open", ""),
                 Ln(2, "code", "x = 1"), EmptyLine }

BraceContents == UNION {[1 .. n -> BracePieces] : n \in 1 .. MaxPieces}

\* a language that delimits blocks by indentation, one that uses braces and
\* one without declaration patterns
ChunkLanguages == {"Python", "JavaScript", "JSON"}

ContentsOf(language) ==
    IF language \in BraceLanguages THEN BraceContents ELSE ChunkContents

InitChunk ==
    /\ disk = [p \in Paths |-> 0]
    /\ unreadable = [p \in Paths |-> FALSE]
    /\ is_git_repo = FALSE
    /\ FAISS_AVAILABLE = FALSE
    /\ files = [p \in Paths |-> NoRecord]
    /\ chunks = <<>>
    /\ chunk_embeddings = <<>>
    /\ index = <<>>
    /\ index_file = NoIndexFile
    /\ metadata_file = NoMetadataFile
    /\ runs = 0
    /\ summary = NoSummary
    /\ run = NoRun
    /\ det = NoDet
    /\ sr = NoSearch
    /\ alive = TRUE
    /\ save_pc = "idle"
    /\ hist = NoHist
    /\ threads = NoThreads
    /\ \E language \in ChunkLanguages : \E content \in ContentsOf(language) :
          chunked = [NoChunked EXCEPT !.content = content, !.language = language]

\* chunk_code(file_content, language)
ChunkCode ==
    /\ chunked.by = ""
    /\ chunked' = [chunked EXCEPT
                      !.by = "chunk_code",
                      !.chunks = chunk_code(chunked.content, chunked.language)]
    /\ UNCHANGED << disk, unreadable, is_git_repo, FAISS_AVAILABLE, files, chunks,
                    chunk_embeddings, index, index_file, metadata_file, runs,
                    summary, run, det, sr, alive, save_pc, hist, threads >>

\* ASTAnalyzer.extract_chunks(file_path, content, language)
ExtractChunks ==
    /\ chunked.by = ""
    /\ chunked' = [chunked EXCEPT
                      !.by = "extract_chunks",
                      !.chunks = extract_chunks(PathSeq[1], chunked.content,
                                                chunked.language)]
    /\ UNCHANGED << disk, unreadable, is_git_repo, FAISS_AVAILABLE, files, chunks,
                    chunk_embeddings, index, index_file, metadata_file, runs,
                    summary, run, det, sr, alive, save_pc, hist, threads >>

\* ASTAnalyzer.analyze_file(file_path, content, language)
AnalyzeFile ==
    /\ chunked.by = ""
    /\ chunked' = [chunked EXCEPT
                      !.by = "analyze_file",
                      !.analysis = analyze_file(chunked.content, chunked.language)]
    /\ UNCHANGED << disk, unreadable, is_git_repo, FAISS_AVAILABLE, files, chunks,
                    chunk_embeddings, index, index_file, metadata_file, runs,
                    summary, run, det, sr, alive, save_pc, hist, threads >>

NextChunk == ChunkCode \/ ExtractChunks \/ AnalyzeFile

SpecChunk == InitChunk /\ [][NextChunk]_vars

\* ------------------------------------------------------------------ properties of the chunkers
\* the number of lines of the file that holds the content
LineCount(content) == Len(splitlines(content))

StartBeforeEnd == \A i \in DOMAIN chunked.chunks :
                     chunked.chunks[i].start_line <= chunked.chunks[i].end_line

EndInFile == \A i \in DOMAIN chunked.chunks :
                chunked.chunks[i].end_line <= LineCount(chunked.content)

\* C20: every chunk that chunk_code or extract_chunks returns, for every
\* content (the empty one and one ending with a newline included) and every
\* language, has start_line <= end_line and end_line <= the number of lines
\* of the file.
C20_LineRangesValid ==
    chunked.by # "" => (StartBeforeEnd /\ EndInFile)

\* the lines of a content that hold a declaration
DeclLines(content) == {j \in DOMAIN content : content[j].kind \in {"def", "class"}}

TypeOf(l) == IF l.kind = "def" THEN "function" ELSE "class"

\* the last line before the first non-blank line after line s that is
\* indented no deeper than line s, or the last line of the file
IndentEnd(content, s) ==
    LET stops == {i \in (s + 1) .. Len(content) :
                     ~IsBlank(content[i]) /\ content[i].ind <= content[s].ind}
    IN  IF stops = {} THEN LineCount(content) ELSE Min(stops) - 1

\* the chunk is the one of the declaration on line s (chunk_code names the
\* type by the keyword, extract_chunks by 'function' or 'class')
ChunkOfDecl(content, chunk, s) ==
    /\ chunk.type \in {TypeOf(content[s]), content[s].kind}
    /\ chunk.name = content[s].name
    /\ chunk.start_line = s

\* C21: in Python every chunk of a declaration that extract_chunks returns
\* starts on the line s of its declaration and ends on the last line before
\* the first later non-blank line indented no deeper than line s, or on the
\* last line of the file; blank lines do not end it.
C21_IndentationBoundary ==
    (chunked.by = "extract_chunks" /\ chunked.language = "Python") =>
        \A i \in DOMAIN chunked.chunks :
            chunked.chunks[i].type # "file" =>
                \E s \in DeclLines(chunked.content) :
                    /\ ChunkOfDecl(chunked.content, chunked.chunks[i], s)
                    /\ chunked.chunks[i].end_line = IndentEnd(chunked.content, s)

\* the running count of '{' minus '}' through the braces bs of one line
RECURSIVE LineScan(_, _, _, _)
LineScan(bs, k, count, positive) ==
    IF k > Len(bs) THEN [hit |-> FALSE, count |-> count, positive |-> positive]
    ELSE LET c == count + (IF bs[k] = "{" THEN 1 ELSE 0 - 1)
         IN  IF positive /\ c = 0
             THEN [hit |-> TRUE, count |-> c, positive |-> positive]
             ELSE LineScan(bs, k + 1, c, positive \/ c > 0)

\* the line on which the count, taken from line i on, is back at zero after
\* having been positive; 0 when there is no such line
RECURSIVE BraceReturnFrom(_, _, _, _)
BraceReturnFrom(content, i, count, positive) ==
    IF i > Len(content) THEN 0
    ELSE LET r == LineScan(Braces(content[i]), 1, count, positive)
         IN  IF r.hit THEN i ELSE BraceReturnFrom(content, i + 1, r.count, r.positive)

BraceReturn(content, s) == BraceReturnFrom(content, s, 0, FALSE)

\* C22: in a language with braces the chunk of a declaration ends on the
\* line on which the running count of '{' minus '}', taken from the first
\* line of the chunk, is back at zero after having been positive, and at
\* the end of the file when that never happens (the empty piece after a
\* final newline is accepted as the end of the file here).
C22_BraceBoundary ==
    (chunked.by = "extract_chunks" /\ chunked.language \in BraceLanguages) =>
        \A i \in DOMAIN chunked.chunks :
            chunked.chunks[i].type # "file" =>
                LET r == BraceReturn(chunked.content, chunked.chunks[i].start_line)
                IN  IF r # 0 THEN chunked.chunks[i].end_line = r
                    ELSE chunked.chunks[i].end_line \in
                            {LineCount(chunked.content), Len(chunked.content)}

\* no line of the content holds a declaration
NoDeclLine(content) ==
    \A j \in DOMAIN content : content[j].kind \notin ({"def", "class"} \cup JsFunctionKinds)

\* the languages in which the chunker that was called looks for declarations
SearchedLanguages ==
    IF chunked.by = "chunk_code" THEN {"Python"}
    ELSE {"Python", "JavaScript", "TypeScript", "Java", "C++", "C", "Go", "Rust"}

\* C23: when the content holds no declaration, or the chunker looks for none
\* in the language, the chunker returns exactly one chunk, of the whole-file
\* kind, from line 1 to the last line of the file, with the whole content
\* as its code.
C23_WholeFileFallback ==
    (/\ chunked.by # ""
     /\ (NoDeclLine(chunked.content) \/ chunked.language \notin SearchedLanguages)) =>
        /\ Len(chunked.chunks) = 1
        /\ chunked.chunks[1].type = "file"
        /\ chunked.chunks[1].start_line = 1
        /\ chunked.chunks[1].end_line = LineCount(chunked.content)
        /\ chunked.chunks[1].code = chunked.content

\* ------------------------------------------------------------------ properties of the change records
ChangeKinds == {"added", "modified", "deleted"}

KindsOf(cs) == {cs[i].change_type : i \in DOMAIN cs}

\* C24: every change record the change detector returns, from git, from the
\* hash comparison or merged by get_all_changes, has a change kind among
\* added, modified, deleted.
C24_ChangeKinds ==
    det.called =>
        /\ KindsOf(get_changed_files_git(is_git_repo, det.git_out)) \subseteq ChangeKinds
        /\ KindsOf(det.hash_changes) \subseteq ChangeKinds
        /\ KindsOf(det.all_changes) \subseteq ChangeKinds

\* ------------------------------------------------------------------ properties of sibling chunks
\* the lines that hold a top-level declaration
TopDecls(content) ==
    {j \in DOMAIN content :
        /\ content[j].kind \in ({"def", "class"} \cup JsFunctionKinds)
        /\ content[j].ind = 0}

\* the next top-level declaration after line s; 0 when s holds the last one
NextDecl(content, s) ==
    LET later == {j \in TopDecls(content) : j > s}
    IN  IF later = {} THEN 0 ELSE Min(later)

\* the chunk of the declaration on line s runs to the line before the next
\* top-level declaration, or to the end of the file (the empty piece after
\* a final newline is accepted as the end of the file here)
SpansToSibling(content, chunk, s) ==
    /\ ChunkOfDecl(content, chunk, s)
    /\ IF NextDecl(content, s) # 0
       THEN chunk.end_line = NextDecl(content, s) - 1
       ELSE chunk.end_line \in {LineCount(content), Len(content)}

\* C25: for the top-level declarations of a file, in source order, the chunk
\* of each runs from its declaration line to the line before the next
\* top-level declaration, and the chunk of the last one to the end of the
\* file; so the chunks of sibling declarations do not overlap.
C25_SiblingSpans ==
    (chunked.by # "" /\ chunked.language \in SearchedLanguages) =>
        \A s \in TopDecls(chunked.content) :
            \E i \in DOMAIN chunked.chunks :
                SpansToSibling(chunked.content, chunked.chunks[i], s)

\* C26: the chunks come in source order: the start lines of the returned
\* sequence never decrease, also when the content mixes classes and
\* functions.
C26_SourceOrder ==
    chunked.by # "" =>
        \A i, j \in DOMAIN chunked.chunks :
            i < j => chunked.chunks[i].start_line <= chunked.chunks[j].start_line

\* ------------------------------------------------------------------ properties of the analysis
\* the record r of the analysis is the one of the def on line j
RecordOfDef(content, r, j) ==
    /\ r.name = content[j].name
    /\ r.line <= j
    /\ \A k \in r.line .. (j - 1) : IsBlank(content[k])

DefLines(content) == {j \in DOMAIN content : content[j].kind = "def"}

InFunctions(j) ==
    \E i \in DOMAIN chunked.analysis.functions :
        RecordOfDef(chunked.content, chunked.analysis.functions[i], j)

\* the def on line j is among the methods of class c
InMethodsOf(c, j) ==
    \E i \in DOMAIN chunked.analysis.classes[c].methods :
        RecordOfDef(chunked.content, chunked.analysis.classes[c].methods[i], j)

\* a declaration before line j is indented less than line j
IndentedUnderEarlier(content, j) ==
    \E i \in DeclLines(content) : i < j /\ content[i].ind < content[j].ind

\* C27: every def the analysis of a Python content meets is in the
\* top-level list or in the list of nested declarations of some class, and
\* a def indented deeper than a declaration before it is recorded as nested
\* under a declaration that stands before it.
C27_NestedRecorded ==
    (chunked.by = "analyze_file" /\ chunked.language = "Python") =>
        \A j \in DefLines(chunked.content) :
            /\ InFunctions(j) \/ \E c \in DOMAIN chunked.analysis.classes : InMethodsOf(c, j)
            /\ IndentedUnderEarlier(chunked.content, j) =>
                  \E c \in DOMAIN chunked.analysis.classes :
                      /\ InMethodsOf(c, j)
                      /\ chunked.analysis.classes[c].line < j

\* ------------------------------------------------------------------ properties of search with a negative k
\* C28: a search called with a negative k is rejected with an error on
\* every path, with an empty or a non-empty store; it never returns a list
\* of results.
C28_NegativeKRejected ==
    (sr.called /\ sr.top_k < 0) => sr.out.raised

\* ------------------------------------------------------------------ properties of the round trip
\* the store in memory is the one the last construction produced, and the
\* directory holds what the last save that ran to its end wrote
JustLoaded ==
    /\ hist.loads >= 1 /\ alive /\ save_pc = "idle"
    /\ Store(chunks, chunk_embeddings, index) = hist.load.store
    /\ metadata_file.exists
    /\ ~hist.interrupted
    /\ hist.load.fail_at = "none"

\* C29: after a save that ran to its end, a new store constructed over the
\* same directory holds the same metadata entries and the same vectors, in
\* the same order, as the store held when it was saved, with or without the
\* faiss library.
C29_RoundTrip ==
    JustLoaded =>
        /\ chunks = hist.committed.chunks
        /\ chunk_embeddings = hist.committed.chunk_embeddings

\* ------------------------------------------------------------------ the chunks similar to one chunk
\* what generate_query_embedding may return for the code of the target:
\* nothing, the vector stored for the target, or the vector of a query
QueryEmbeddings(target) ==
    {None} \cup {q.vec : q \in Queries}
           \cup (IF target = 0 THEN {} ELSE {chunk_embeddings[target]})

\* EmbeddingManager.get_similar_chunks(file_path, chunk_name, top_k)
GetSimilarChunks(e, top_k, asserts) ==
    /\ ~sr.called
    /\ alive /\ save_pc = "idle"
    /\ \E target \in {TargetOf(chunks, e.file_path, e.chunk.name)} :
       \E query_embedding \in QueryEmbeddings(target) :
       \E out \in get_similar_chunks(Store(chunks, chunk_embeddings, index),
                                     FAISS_AVAILABLE, e.file_path, e.chunk.name,
                                     top_k, query_embedding, asserts) :
          sr' = [called |-> TRUE,
                 query |-> IF target = 0 THEN <<>> ELSE chunks[target].full_code,
                 query_embedding |-> query_embedding, top_k |-> top_k,
                 asserts |-> asserts, out |-> out, target |-> target]
    /\ UNCHANGED << disk, unreadable, is_git_repo, FAISS_AVAILABLE, files, chunks,
                    chunk_embeddings, index, index_file, metadata_file, runs,
                    summary, run, det, alive, save_pc, hist, threads, chunked >>

NextSimilar ==
    \/ \E e \in Catalogue : AddChunk(e, "vector", TRUE)
    \/ \E e \in Catalogue, top_k \in 0 .. MaxK, asserts \in BOOLEAN :
          GetSimilarChunks(e, top_k, asserts)

SpecSimilar == InitStore /\ [][NextSimilar]_vars

\* C30: get_similar_chunks never returns the chunk it was asked about and
\* returns at most k entries, whatever the store holds and whether the
\* search behind it compares vectors or keywords.
C30_TargetExcluded ==
    (sr.called /\ sr.target # 0 /\ ~sr.out.raised) =>
        /\ PositionsOf(sr.out.results, sr.target) = {}
        /\ Len(sr.out.results) <= sr.top_k

====
